---- MODULE Spec2Model ----
(***************************************************************************)
(* Model of FraudDetectionPipeline ("Fraud Detection Data Pipeline.py"):   *)
(* ingest_data, clean_data, apply_rule_based_detection, store_in_database  *)
(* and run_pipeline, over pandas DataFrames and one SQLite table.          *)
(*                                                                         *)
(* A DataFrame is [ts_dtype, rows]: rows is the sequence of its rows in    *)
(* row order, ts_dtype the dtype of the timestamp column ("object": the    *)
(* text read from the CSV, "datetime64": instants in seconds).  A missing  *)
(* cell is NaN (text columns), NaT (datetime column), NaNAmount (amount)   *)
(* or NaNMerchant (merchant).  A merchant is the tuple of its characters.  *)
(***************************************************************************)
EXTENDS Integers, Sequences, FiniteSets, TLC

VARIABLES pc, df, df_clean, df_reclean, flags, df_processed, db, summary, error, runs

vars == <<pc, df, df_clean, df_reclean, flags, df_processed, db, summary, error, runs>>

(***************************************************************************)
(* Bounds of the model.                                                    *)
(***************************************************************************)
\* rows of a batch handed to clean_data
MaxCleanRows == 2
\* rows of a batch handed to apply_rule_based_detection
MaxScoreRows == 2
\* rows of the CSV file of a pipeline run
MaxFileRows == 3
\* pipeline runs against the same database file
MaxRuns == 2
\* rows of a batch of merchant names
MaxMerchantRows == 1

(***************************************************************************)
(* Missing values.                                                         *)
(***************************************************************************)
NaN == "NaN"
NaT == -1
NaNAmount == -1
NaNMerchant == <<"NaN">>

(***************************************************************************)
(* Characters: the classes of the regular expression [^\w\s].              *)
(***************************************************************************)
UpperCase == <<"A","B","C","D","E","F","G","H","I","J","K","L","M",
               "N","O","P","Q","R","S","T","U","V","W","X","Y","Z">>
LowerCase == <<"a","b","c","d","e","f","g","h","i","j","k","l","m",
               "n","o","p","q","r","s","t","u","v","w","x","y","z">>
Digits == {"0","1","2","3","4","5","6","7","8","9"}
Range(s) == {s[i] : i \in DOMAIN s}
\* \w : a letter, a digit or the underscore
IsWordChar(c) == c \in Range(UpperCase) \cup Range(LowerCase) \cup Digits \cup {"_"}
\* \s : whitespace
IsSpaceChar(c) == c \in {" ", "\t", "\n"}
\* case folding of re.IGNORECASE (case=False)
Lower(c) == IF \E i \in DOMAIN UpperCase : UpperCase[i] = c
            THEN LowerCase[CHOOSE i \in DOMAIN UpperCase : UpperCase[i] = c]
            ELSE c
LowerStr(s) == [i \in DOMAIN s |-> Lower(s[i])]

(***************************************************************************)
(* Sequence helpers.                                                       *)
(***************************************************************************)
\* the rows of s at the positions in K, in row order (boolean-mask indexing)
RECURSIVE Pick(_, _, _)
Pick(s, K, i) == IF i > Len(s) THEN <<>>
                 ELSE (IF i \in K THEN <<s[i]>> ELSE <<>>) \o Pick(s, K, i + 1)
Mask(s, K) == Pick(s, K, 1)
\* all sequences over S of length at most n
SeqsUpTo(S, n) == UNION {[1..k -> S] : k \in 0..n}

(***************************************************************************)
(* clean_data                                                              *)
(***************************************************************************)
\* timestamp texts and the instant (seconds) each denotes; "bad" has none
TsTexts == {"t0", "t30", "t59", "t60", "t61"}
ParseTs(txt) == CASE txt = "t0" -> 0 [] txt = "t30" -> 30 [] txt = "t59" -> 59
                  [] txt = "t60" -> 60 [] txt = "t61" -> 61

\* drop_duplicates with keep='last'
drop_duplicates_keep_last(rows) ==
  Mask(rows, {i \in DOMAIN rows :
                \A j \in (i + 1)..Len(rows) :
                   rows[j].transaction_id # rows[i].transaction_id})

\* df.drop_duplicates(subset=['transaction_id']): keep='first'; NaN keys equal
drop_duplicates(rows) ==
  Mask(rows, {i \in DOMAIN rows :
                \A j \in 1..(i - 1) : rows[j].transaction_id # rows[i].transaction_id})

\* pd.to_datetime (errors='raise'): can every value of the column be converted
to_datetime_ok(d) ==
  d.ts_dtype = "datetime64"
    \/ \A i \in DOMAIN d.rows : d.rows[i].timestamp \in TsTexts \cup {NaN}
\* pd.to_datetime: the converted column (NaN becomes NaT)
to_datetime(d) ==
  IF d.ts_dtype = "datetime64" THEN d
  ELSE [ts_dtype |-> "datetime64",
        rows |-> [i \in DOMAIN d.rows |->
                   [d.rows[i] EXCEPT !.timestamp =
                      IF d.rows[i].timestamp = NaN THEN NaT
                      ELSE ParseTs(d.rows[i].timestamp)]]]

\* a row of a datetime64 frame with a missing value in any column
HasNa(r) == \/ r.transaction_id = NaN
            \/ r.timestamp = NaT
            \/ r.amount = NaNAmount
            \/ r.merchant = NaNMerchant
            \/ r.user_id = NaN
            \/ r.is_fraud = NaN
\* dropna(subset=[the five required columns])
dropna_required(rows) ==
  Mask(rows, {i \in DOMAIN rows :
                ~(\/ rows[i].transaction_id = NaN
                  \/ rows[i].timestamp = NaT
                  \/ rows[i].amount = NaNAmount
                  \/ rows[i].merchant = NaNMerchant
                  \/ rows[i].user_id = NaN)})

\* df.dropna(): how='any', every column
dropna(rows) == Mask(rows, {i \in DOMAIN rows : ~HasNa(rows[i])})

\* Series.str.strip(): leading and trailing whitespace removed
RECURSIVE lstrip(_)
lstrip(m) == IF m # <<>> /\ IsSpaceChar(Head(m)) THEN lstrip(Tail(m)) ELSE m
RECURSIVE rstrip(_)
rstrip(m) == IF m # <<>> /\ IsSpaceChar(m[Len(m)])
             THEN rstrip(SubSeq(m, 1, Len(m) - 1)) ELSE m
str_strip(m) == rstrip(lstrip(m))
\* Series.str.replace(r'[^\w\s]', '', regex=True)
str_replace(m) == SelectSeq(m, LAMBDA c : IsWordChar(c) \/ IsSpaceChar(c))
\* lines 53-54, in that order
standardize_merchant(m) == str_replace(str_strip(m))

\* clean_data with the timestamps converted before the duplicates are removed
clean_data_convert_first(d) ==
  IF ~to_datetime_ok(d) THEN [raised |-> TRUE, value |-> d]
  ELSE LET kept == dropna(drop_duplicates(to_datetime(d).rows)) IN
       [raised |-> FALSE,
        value |-> [ts_dtype |-> "datetime64",
                   rows |-> [i \in DOMAIN kept |->
                              [kept[i] EXCEPT !.merchant =
                                 standardize_merchant(kept[i].merchant)]]]]

\* clean_data(df): [raised, value]
clean_data(d) ==
  LET dedup == [d EXCEPT !.rows = drop_duplicates(d.rows)] IN
  IF ~to_datetime_ok(dedup) THEN [raised |-> TRUE, value |-> dedup]
  ELSE LET kept == dropna(to_datetime(dedup).rows) IN
       [raised |-> FALSE,
        value |-> [ts_dtype |-> "datetime64",
                   rows |-> [i \in DOMAIN kept |->
                              [kept[i] EXCEPT !.merchant =
                                 standardize_merchant(kept[i].merchant)]]]]

(***************************************************************************)
(* apply_rule_based_detection                                              *)
(***************************************************************************)
\* amounts are in cents (two decimals)
CentsPerUnit == 100
\* Rule 1 threshold: amount > 1000
HighAmount == 1000
\* Rule 3 threshold: time_diff < 60
RapidSeconds == 60

\* high_risk_merchants = ['Casino', 'Gaming', 'Crypto', 'Betting']
high_risk_merchants ==
  { <<"C","a","s","i","n","o">>, <<"G","a","m","i","n","g">>,
    <<"C","r","y","p","t","o">>, <<"B","e","t","t","i","n","g">> }

\* re.search of a literal: the needle occurs somewhere in the haystack
Contains(hay, needle) ==
  \E k \in 0..(Len(hay) - Len(needle)) :
     \A i \in 1..Len(needle) : hay[k + i] = needle[i]

\* df['amount'] > 1000 (a comparison with NaN is False)
high_amount_flag(rows) ==
  [i \in DOMAIN rows |->
     rows[i].amount # NaNAmount /\ rows[i].amount > HighAmount * CentsPerUnit]

\* str.contains with na=True: a missing merchant counts as a match
merchant_risk_flag_na_true(rows) ==
  [i \in DOMAIN rows |->
     IF rows[i].merchant = NaNMerchant THEN TRUE
     ELSE \E kw \in high_risk_merchants :
             Contains(LowerStr(rows[i].merchant), LowerStr(kw))]

\* str.contains with case=True: the keywords as they are spelled
merchant_risk_flag_case_sensitive(rows) ==
  [i \in DOMAIN rows |->
     IF rows[i].merchant = NaNMerchant THEN FALSE
     ELSE \E kw \in high_risk_merchants : Contains(rows[i].merchant, kw)]

\* df['merchant'].str.contains('Casino|Gaming|Crypto|Betting', case=False, na=False)
merchant_risk_flag(rows) ==
  [i \in DOMAIN rows |->
     IF rows[i].merchant = NaNMerchant THEN FALSE
     ELSE \E kw \in high_risk_merchants :
             Contains(LowerStr(rows[i].merchant), LowerStr(kw))]

\* df.groupby('user_id')['timestamp'].shift(1): the timestamp of the previous
\* row of the same user in row order; NaT for the first one and for a NaN key
prev_transaction_time(rows) ==
  [i \in DOMAIN rows |->
     LET before == {j \in 1..(i - 1) : rows[j].user_id = rows[i].user_id} IN
     IF rows[i].user_id = NaN \/ before = {} THEN NaT
     ELSE rows[CHOOSE j \in before : \A k \in before : k <= j].timestamp]

\* (timestamp - prev_transaction_time).dt.total_seconds() < 60
rapid_transactions_flag(rows) ==
  LET prev == prev_transaction_time(rows) IN
  [i \in DOMAIN rows |->
     /\ rows[i].timestamp # NaT
     /\ prev[i] # NaT
     /\ rows[i].timestamp - prev[i] < RapidSeconds]

BoolToInt(b) == IF b THEN 1 ELSE 0

\* lines 84-86: any rule triggered
rule_based_fraud_flag(r1, r2, r3) == r1 \/ r2 \/ r3
\* the score with the rapid-transactions term left out
fraud_score_two_rules(r1, r2, r3) == BoolToInt(r1) + BoolToInt(r2)

\* lines 89-91: how many rules triggered
fraud_score(r1, r2, r3) == BoolToInt(r1) + BoolToInt(r2) + BoolToInt(r3)

NoFlags == [high_amount_flag |-> <<>>, merchant_risk_flag |-> <<>>,
            rapid_transactions_flag |-> <<>>]

\* apply_rule_based_detection(df): [raised, value, flags]; the .dt accessor
\* raises unless the timestamp column is datetime64
apply_rule_based_detection(d) ==
  IF d.ts_dtype # "datetime64"
  THEN [raised |-> TRUE, value |-> d, flags |-> NoFlags]
  ELSE LET r1 == high_amount_flag(d.rows)
           r2 == merchant_risk_flag(d.rows)
           r3 == rapid_transactions_flag(d.rows)
       IN [raised |-> FALSE,
           flags |-> [high_amount_flag |-> r1, merchant_risk_flag |-> r2,
                      rapid_transactions_flag |-> r3],
           value |-> [ts_dtype |-> d.ts_dtype,
                      rows |-> [i \in DOMAIN d.rows |->
                        [transaction_id |-> d.rows[i].transaction_id,
                         timestamp |-> d.rows[i].timestamp,
                         amount |-> d.rows[i].amount,
                         merchant |-> d.rows[i].merchant,
                         user_id |-> d.rows[i].user_id,
                         is_fraud |-> d.rows[i].is_fraud,
                         rule_based_fraud_flag |->
                            rule_based_fraud_flag(r1[i], r2[i], r3[i]),
                         fraud_score |-> fraud_score(r1[i], r2[i], r3[i])]]]]

(***************************************************************************)
(* store_in_database                                                       *)
(***************************************************************************)
\* transaction_id TEXT PRIMARY KEY: would appending these rows to the table
\* break the key (NULL keys never conflict in SQLite)
PrimaryKeyConflict(table, rows) ==
  LET all == table \o rows IN
  \E i, j \in DOMAIN all : /\ i < j
                           /\ j > Len(table)
                           /\ all[i].transaction_id # NaN
                           /\ all[i].transaction_id = all[j].transaction_id

\* to_sql into a table created without the primary key
to_sql_no_primary_key(table, rows) == [raised |-> FALSE, table |-> table \o rows]

\* the rows before the first refused one
RECURSIVE InsertedBeforeConflict(_, _)
InsertedBeforeConflict(table, rows) ==
  IF rows = <<>> \/ PrimaryKeyConflict(table, <<Head(rows)>>) THEN table
  ELSE InsertedBeforeConflict(Append(table, Head(rows)), Tail(rows))
\* to_sql committing row by row: the rows before a refused one stay
to_sql_row_by_row(table, rows) ==
  [raised |-> PrimaryKeyConflict(table, rows),
   table |-> InsertedBeforeConflict(table, rows)]

\* df.to_sql('transactions', conn, if_exists='append'): one transaction,
\* rolled back as a whole when a row is refused
to_sql(table, rows) ==
  IF PrimaryKeyConflict(table, rows)
  THEN [raised |-> TRUE, table |-> table]
  ELSE [raised |-> FALSE, table |-> table \o rows]

\* store_in_database(df): [raised, table]
store_in_database(table, d) == to_sql(table, d.rows)

(***************************************************************************)
(* run_pipeline: the summary                                               *)
(***************************************************************************)
\* Series.sum() of a boolean column
RECURSIVE SumSeries(_)
SumSeries(b) == IF b = <<>> THEN 0 ELSE BoolToInt(Head(b)) + SumSeries(Tail(b))

HighRiskScore == 2

\* the summary with 'fraud_score > 2' for the high-risk count
make_summary_above_two(d) ==
  [total_records |-> Len(d.rows),
   original_fraud_flags |->
      SumSeries([i \in DOMAIN d.rows |-> d.rows[i].is_fraud = "True"]),
   rule_based_flags |->
      SumSeries([i \in DOMAIN d.rows |-> d.rows[i].rule_based_fraud_flag]),
   high_risk_transactions |->
      SumSeries([i \in DOMAIN d.rows |-> d.rows[i].fraud_score > HighRiskScore])]

make_summary(d) ==
  [total_records |-> Len(d.rows),
   original_fraud_flags |->
      SumSeries([i \in DOMAIN d.rows |-> d.rows[i].is_fraud = "True"]),
   rule_based_flags |->
      SumSeries([i \in DOMAIN d.rows |-> d.rows[i].rule_based_fraud_flag]),
   high_risk_transactions |->
      SumSeries([i \in DOMAIN d.rows |-> d.rows[i].fraud_score >= HighRiskScore])]

(***************************************************************************)
(* Inputs.                                                                 *)
(***************************************************************************)
Row(id, ts, amt, m, u, f) ==
  [transaction_id |-> id, timestamp |-> ts, amount |-> amt, merchant |-> m,
   user_id |-> u, is_fraud |-> f]

NoFrame == [ts_dtype |-> "none", rows |-> <<>>]

CoffeeShop == <<"C","o","f","f","e","e"," ","S","h","o","p">>
CasinoRoyale == <<"C","a","s","i","n","o"," ","R","o","y","a","l","e">>
\* " Joe's Cafe, Inc. "
JoesCafe == <<" ","J","o","e","'","s"," ","C","a","f","e",","," ","I","n","c","."," ">>
\* "Cafe !"
CafeBang == <<"C","a","f","e"," ","!">>
\* "cryptoExchange", "CRYPTO Exchange", "Crypt"
CryptoExchange == <<"c","r","y","p","t","o","E","x","c","h","a","n","g","e">>
CryptoUpper == <<"C","R","Y","P","T","O"," ","E","x","c","h","a","n","g","e">>
Crypt == <<"C","r","y","p","t">>

\* the DataFrames handed to clean_data: the timestamp column is text
CleanIds == {"A", "B", NaN}
CleanTimestamps == {"t0", "t30", "not a date", NaN}
\* <<amount, merchant, user_id, is_fraud>>
CleanPayloads ==
  { <<500, CoffeeShop, "U1", "False">>,
    <<NaNAmount, CoffeeShop, "U1", "False">>,
    <<500, NaNMerchant, "U1", "False">>,
    <<500, CoffeeShop, NaN, "False">>,
    <<500, CoffeeShop, "U1", NaN>>,
    <<150000, CafeBang, "U2", "True">>,
    <<150000, JoesCafe, "U2", "True">> }
CleanRows ==
  {Row(id, ts, p[1], p[2], p[3], p[4]) :
     id \in CleanIds, ts \in CleanTimestamps, p \in CleanPayloads}
CleanFrames ==
  {[ts_dtype |-> "object", rows |-> s] : s \in SeqsUpTo(CleanRows, MaxCleanRows)}

\* the DataFrames handed to apply_rule_based_detection: any frame, the
\* cleaner's invariants not assumed
ScoreTimestamps == {0, 59, 60, NaT}
ScoreUsers == {"U1", "U2", NaN}
\* <<amount, merchant>>
ScorePayloads ==
  { <<500, CoffeeShop>>,
    <<150000, CasinoRoyale>>,
    <<100000, Crypt>>,
    <<100001, NaNMerchant>>,
    <<NaNAmount, CryptoExchange>> }
ScoreCells ==
  {<<ts, u, p>> : ts \in ScoreTimestamps, u \in ScoreUsers, p \in ScorePayloads}
TxId(i) == <<"T1", "T2", "T3", "T4">>[i]
ScoreFrames ==
  {[ts_dtype |-> "datetime64",
    rows |-> [i \in DOMAIN s |->
               Row(TxId(i), s[i][1], s[i][3][1], s[i][3][2], s[i][2], "False")]] :
     s \in SeqsUpTo(ScoreCells, MaxScoreRows)}
\* frames whose timestamp column was never converted
UnparsedFrames ==
  {[ts_dtype |-> "object",
    rows |-> [i \in DOMAIN s |-> Row(TxId(i), s[i], 500, CoffeeShop, "U1", "False")]] :
     s \in SeqsUpTo({"t0", "not a date"}, MaxScoreRows)}

\* merchant names around the keywords: each keyword as spelled, in lower and
\* in upper case, cut short at either end, and split by a hyphen or a space,
\* alone or inside a longer name
Upper(c) == IF \E i \in DOMAIN LowerCase : LowerCase[i] = c
            THEN UpperCase[CHOOSE i \in DOMAIN LowerCase : LowerCase[i] = c]
            ELSE c
UpperStr(s) == [i \in DOMAIN s |-> Upper(s[i])]
SplitBy(s, c) == SubSeq(s, 1, 4) \o <<c>> \o SubSeq(s, 5, Len(s))
MerchantCores ==
  UNION {{kw, LowerStr(kw), UpperStr(kw),
          SubSeq(kw, 1, Len(kw) - 1), SubSeq(kw, 2, Len(kw)),
          SplitBy(kw, "-"), SplitBy(kw, " ")} : kw \in high_risk_merchants}
    \cup {CoffeeShop, CryptoExchange, CryptoUpper, Crypt}
MerchantPrefixes == {<<>>, <<"M","y"," ">>}
MerchantSuffixes == {<<>>, <<"s",".">>}
MerchantNames ==
  {pre \o core \o suf :
     pre \in MerchantPrefixes, core \in MerchantCores, suf \in MerchantSuffixes}
MerchantFrames ==
  {[ts_dtype |-> "object",
    rows |-> [i \in DOMAIN s |-> Row(TxId(i), "t0", 500, s[i], "U1", "False")]] :
     s \in SeqsUpTo(MerchantNames, MaxMerchantRows)}

\* the CSV files of the pipeline runs
FileIds == {"A", "B"}
\* <<timestamp, amount, merchant, user_id, is_fraud>>
FilePayloads ==
  { <<"t0", 150000, CasinoRoyale, "U1", "True">>,
    <<"t30", 500, CoffeeShop, "U1", "False">>,
    <<"t60", NaNAmount, CoffeeShop, "U1", "False">>,
    <<"not a date", 500, CoffeeShop, "U1", "False">> }
FileRows ==
  {Row(id, p[1], p[2], p[3], p[4], p[5]) : id \in FileIds, p \in FilePayloads}
Files ==
  {[ts_dtype |-> "object", rows |-> s] : s \in SeqsUpTo(FileRows, MaxFileRows)}

(***************************************************************************)
(* The steps of run_pipeline.  pc is the position in run_pipeline; error   *)
(* names the stage whose exception run_pipeline re-raised.                 *)
(***************************************************************************)
Raise(stage) == pc' = "raised" /\ error' = stage

\* ingest_data: pd.read_csv, or its exception (no file, not a CSV)
IngestData ==
  /\ pc = "start"
  /\ \/ /\ Raise("ingest")
        /\ UNCHANGED df
     \/ /\ \E f \in Files : df' = f
        /\ pc' = "ingested"
        /\ UNCHANGED error
  /\ UNCHANGED <<df_clean, df_reclean, flags, df_processed, db, summary, runs>>

\* df_clean = self.clean_data(df)
CleanData ==
  /\ pc = "ingested"
  /\ LET r == clean_data(df) IN
     IF r.raised
     THEN Raise("clean") /\ UNCHANGED df_clean
     ELSE pc' = "cleaned" /\ df_clean' = r.value /\ UNCHANGED error
  /\ UNCHANGED <<df, df_reclean, flags, df_processed, db, summary, runs>>

\* clean_data applied to its own output
CleanDataAgain ==
  /\ pc = "cleaned"
  /\ LET r == clean_data(df_clean) IN
     IF r.raised
     THEN Raise("clean") /\ UNCHANGED df_reclean
     ELSE pc' = "recleaned" /\ df_reclean' = r.value /\ UNCHANGED error
  /\ UNCHANGED <<df, df_clean, flags, df_processed, db, summary, runs>>

\* df_processed = self.apply_rule_based_detection(df_clean)
ApplyRuleBasedDetection ==
  /\ pc = "cleaned"
  /\ LET r == apply_rule_based_detection(df_clean) IN
     IF r.raised
     THEN Raise("score") /\ UNCHANGED <<flags, df_processed>>
     ELSE /\ pc' = "scored"
          /\ flags' = r.flags
          /\ df_processed' = r.value
          /\ UNCHANGED error
  /\ UNCHANGED <<df, df_clean, df_reclean, db, summary, runs>>

\* self.store_in_database(df_processed)
StoreInDatabase ==
  /\ pc = "scored"
  /\ LET r == store_in_database(db, df_processed) IN
     /\ db' = r.table
     /\ IF r.raised THEN Raise("store") ELSE pc' = "stored" /\ UNCHANGED error
  /\ UNCHANGED <<df, df_clean, df_reclean, flags, df_processed, summary, runs>>

\* summary = {...}; return summary
ReturnSummary ==
  /\ pc = "stored"
  /\ summary' = <<make_summary(df_processed)>>
  /\ pc' = "returned"
  /\ UNCHANGED <<df, df_clean, df_reclean, flags, df_processed, db, error, runs>>

\* the next run (run_daily_pipeline): a new pipeline object, the same db_file
RunPipeline ==
  /\ pc \in {"returned", "raised"}
  /\ runs < MaxRuns
  /\ runs' = runs + 1
  /\ pc' = "start"
  /\ df' = NoFrame /\ df_clean' = NoFrame /\ df_reclean' = NoFrame
  /\ flags' = NoFlags /\ df_processed' = NoFrame
  /\ summary' = <<>> /\ error' = "none"
  /\ UNCHANGED db

Fresh ==
  /\ df_reclean = NoFrame /\ flags = NoFlags /\ df_processed = NoFrame
  /\ db = <<>> /\ summary = <<>> /\ error = "none" /\ runs = 1

\* repeated pipeline runs against one database file
Init == pc = "start" /\ df = NoFrame /\ df_clean = NoFrame /\ Fresh
Next == \/ IngestData
        \/ CleanData
        \/ ApplyRuleBasedDetection
        \/ StoreInDatabase
        \/ ReturnSummary
        \/ RunPipeline
Spec == Init /\ [][Next]_vars

\* clean_data called on any batch, then on its own output
InitClean == pc = "ingested" /\ df \in CleanFrames /\ df_clean = NoFrame /\ Fresh
NextClean == CleanData \/ CleanDataAgain
SpecClean == InitClean /\ [][NextClean]_vars

\* apply_rule_based_detection called on any batch
InitScore ==
  /\ pc = "cleaned" /\ df = NoFrame /\ Fresh
  /\ (df_clean \in ScoreFrames \/ df_clean \in UnparsedFrames)
NextScore == ApplyRuleBasedDetection
SpecScore == InitScore /\ [][NextScore]_vars

\* clean_data, then apply_rule_based_detection, on batches of merchant names
InitMerchant == pc = "ingested" /\ df \in MerchantFrames /\ df_clean = NoFrame /\ Fresh
NextMerchant == CleanData \/ ApplyRuleBasedDetection
SpecMerchant == InitMerchant /\ [][NextMerchant]_vars

(***************************************************************************)
(* Properties of clean_data (SpecClean).                                   *)
(***************************************************************************)
CleanReturned == pc \in {"cleaned", "recleaned"}
CleanCalled == pc # "ingested"

\* the positions of df holding the first occurrence of their transaction_id
FirstOccurrences ==
  {k \in DOMAIN df.rows :
     \A j \in 1..(k - 1) : df.rows[j].transaction_id # df.rows[k].transaction_id}
Unparseable(txt) == txt \notin TsTexts \cup {NaN}
Instant(txt) == IF txt \in TsTexts THEN ParseTs(txt) ELSE NaT
\* out is the cleaned form of the raw record raw
SameRecord(out, raw) ==
  /\ out.transaction_id = raw.transaction_id
  /\ out.timestamp = Instant(raw.timestamp)
  /\ out.amount = raw.amount
  /\ out.user_id = raw.user_id
  /\ out.is_fraud = raw.is_fraud
  /\ out.merchant = standardize_merchant(raw.merchant)
\* df_clean is df restricted to the positions K, in input order
OutputIs(K) ==
  LET expected == Mask(df.rows, K) IN
  /\ Len(df_clean.rows) = Len(expected)
  /\ \A i \in DOMAIN expected : SameRecord(df_clean.rows[i], expected[i])

\* C1: the output of clean_data holds at most one record per transaction_id,
\* and each surviving record is the first occurrence of its id in input order
\* (an id whose first occurrence is dropped for a null does not survive).
C1_FirstOccurrenceOnly ==
  CleanReturned =>
    /\ \A i, j \in DOMAIN df_clean.rows :
          i # j => df_clean.rows[i].transaction_id # df_clean.rows[j].transaction_id
    /\ \A i \in DOMAIN df_clean.rows :
          \E k \in FirstOccurrences : SameRecord(df_clean.rows[i], df.rows[k])
C1_Witness ==
  /\ pc = "cleaned"
  /\ Len(df.rows) = 2
  /\ df.rows[1].transaction_id = df.rows[2].transaction_id
  /\ df.rows[1] # df.rows[2]
  /\ Len(df_clean.rows) = 1

RequiredNonNull(r) ==
  /\ r.transaction_id # NaN
  /\ r.timestamp # NaN
  /\ r.amount # NaNAmount
  /\ r.merchant # NaNMerchant
  /\ r.user_id # NaN

\* C2 as stated: the output is exactly the first occurrences whose five
\* required fields are non-null, in input order (a null is_fraud is kept).
C2_RequiredFieldsOnly ==
  CleanReturned =>
    OutputIs({k \in FirstOccurrences : RequiredNonNull(df.rows[k])})
\* C2 amended: whenever clean_data returns, the output is exactly the first
\* occurrences with no null in any of the six columns, is_fraud included, in
\* input order.
C2_AllColumnsNonNull ==
  CleanReturned =>
    OutputIs({k \in FirstOccurrences :
                RequiredNonNull(df.rows[k]) /\ df.rows[k].is_fraud # NaN})
C2_Witness ==
  /\ pc = "cleaned"
  /\ \E k \in FirstOccurrences :
        /\ RequiredNonNull(df.rows[k])
        /\ df.rows[k].is_fraud = NaN
        /\ \A i \in DOMAIN df_clean.rows :
              df_clean.rows[i].transaction_id # df.rows[k].transaction_id

\* df with every unparseable timestamp replaced by a null
NullBadTimestamps(d) ==
  [d EXCEPT !.rows = [i \in DOMAIN d.rows |->
     [d.rows[i] EXCEPT !.timestamp = IF Unparseable(@) THEN NaN ELSE @]]]

C4_Idempotent == pc = "recleaned" => df_reclean = df_clean

(***************************************************************************)
(* Properties of apply_rule_based_detection (SpecScore).                   *)
(***************************************************************************)
\* the cleaner's invariants: unique ids, no null required field, parsed timestamps
Canonical(d) ==
  /\ d.ts_dtype = "datetime64"
  /\ \A i, j \in DOMAIN d.rows :
        i # j => d.rows[i].transaction_id # d.rows[j].transaction_id
  /\ \A i \in DOMAIN d.rows :
        /\ d.rows[i].transaction_id # NaN
        /\ d.rows[i].timestamp # NaT
        /\ d.rows[i].amount # NaNAmount
        /\ d.rows[i].merchant # NaNMerchant
        /\ d.rows[i].user_id # NaN

\* C5: fraud_score is the number of the three rule flags that are true, so
\* it lies in 0..3, and rule_based_fraud_flag is true exactly when it is > 0.
C5_ScoreCountsRules ==
  pc = "scored" =>
    /\ Len(df_processed.rows) = Len(df_clean.rows)
    /\ \A i \in DOMAIN df_processed.rows :
          LET r == df_processed.rows[i]
              fired == {k \in 1..3 :
                          <<flags.high_amount_flag[i], flags.merchant_risk_flag[i],
                            flags.rapid_transactions_flag[i]>>[k]}
          IN /\ r.fraud_score = Cardinality(fired)
             /\ r.fraud_score \in 0..3
             /\ r.rule_based_fraud_flag <=> (r.fraud_score > 0)
C5_Witness ==
  /\ pc = "scored"
  /\ \E i, j \in DOMAIN df_processed.rows :
        /\ df_processed.rows[i].fraud_score = 3
        /\ df_processed.rows[j].fraud_score = 0

\* row j comes before row i in timestamp order, ties broken by input order
Earlier(rows, j, i) ==
  \/ rows[j].timestamp < rows[i].timestamp
  \/ rows[j].timestamp = rows[i].timestamp /\ j < i
\* the rows of i's user that come before row i in that order
Predecessors(rows, i) ==
  {j \in DOMAIN rows : /\ j # i
                       /\ rows[j].user_id = rows[i].user_id
                       /\ Earlier(rows, j, i)}
\* R3 over the user's records sorted by timestamp: the positional predecessor
\* is the latest of the predecessors, and it is less than 60 s back
SortedR3(rows, i) ==
  LET P == Predecessors(rows, i) IN
  /\ P # {}
  /\ LET p == CHOOSE j \in P : \A k \in P \ {j} : Earlier(rows, k, j) IN
     rows[i].timestamp - rows[p].timestamp < RapidSeconds

\* C6: on a canonical batch in any input order, R3 of a record is true
\* exactly when its predecessor in the user's timestamp order is less than
\* 60 seconds back.
C6_R3UsesTimestampOrder ==
  (pc = "scored" /\ Canonical(df_clean)) =>
    \A i \in DOMAIN df_clean.rows :
       flags.rapid_transactions_flag[i] <=> SortedR3(df_clean.rows, i)

\* C7: on a canonical batch, the record of a user with the earliest
\* timestamp never has R3 true, wherever it stands in the input.
C7_EarliestNeverRapid ==
  (pc = "scored" /\ Canonical(df_clean)) =>
    \A i \in DOMAIN df_clean.rows :
       Predecessors(df_clean.rows, i) = {} => ~flags.rapid_transactions_flag[i]

\* a record breaks the cleaner's invariants
BreaksInvariants(d) ==
  \/ d.ts_dtype # "datetime64"
  \/ \E i \in DOMAIN d.rows :
        \/ d.rows[i].timestamp = NaT
        \/ d.rows[i].amount = NaNAmount
        \/ d.rows[i].merchant = NaNMerchant
        \/ d.rows[i].user_id = NaN

UniqueKey(table) ==
  \A i, j \in DOMAIN table :
     i # j => table[i].transaction_id # table[j].transaction_id
Stored(id) == \E j \in DOMAIN db : db[j].transaction_id = id

\* C9: over any sequence of runs the transactions table never holds two rows
\* with the same transaction_id: storing a batch with a row whose id is
\* already stored is refused and leaves the table as it was.
C9_PrimaryKeyUnique ==
  [][/\ UniqueKey(db')
     /\ (pc = "scored"
           /\ \E i \in DOMAIN df_processed.rows :
                 Stored(df_processed.rows[i].transaction_id))
          => (pc' = "raised" /\ error' = "store" /\ db' = db)]_vars
C9_Witness ==
  /\ pc = "raised"
  /\ error = "store"
  /\ \E i \in DOMAIN df_processed.rows : Stored(df_processed.rows[i].transaction_id)

\* the steps of a run in order, the failure of a stage, and the next run
Forward ==
  { <<"start", "ingested">>, <<"ingested", "cleaned">>, <<"cleaned", "scored">>,
    <<"scored", "stored">>, <<"stored", "returned">>,
    <<"start", "raised">>, <<"ingested", "raised">>, <<"cleaned", "raised">>,
    <<"scored", "raised">>, <<"returned", "start">>, <<"raised", "start">> }
StageAt(p) == CASE p = "start" -> "ingest" [] p = "ingested" -> "clean"
                [] p = "cleaned" -> "score" [] p = "scored" -> "store"
                [] OTHER -> "none"

RiskKeywords ==
  { <<"C","a","s","i","n","o">>, <<"G","a","m","i","n","g">>,
    <<"C","r","y","p","t","o">>, <<"B","e","t","t","i","n","g">> }
\* some stretch of m spells a keyword, letter case ignored
SpellsKeyword(m) ==
  \E kw \in RiskKeywords : \E a \in 1..Len(m) : \E b \in a..Len(m) :
     LowerStr(SubSeq(m, a, b)) = LowerStr(kw)

\* C11: R2 of a record is true exactly when its normalized merchant contains
\* one of Casino, Gaming, Crypto, Betting as a substring, letter case
\* ignored: "cryptoExchange" and "CRYPTO Exchange" trigger it, "Crypt" does not.
C11_R2SubstringAnyCase ==
  pc = "scored" =>
    \A i \in DOMAIN df_clean.rows :
       LET m == df_clean.rows[i].merchant IN
       /\ flags.merchant_risk_flag[i] <=> SpellsKeyword(m)
       /\ m \in {CryptoExchange, CryptoUpper} => flags.merchant_risk_flag[i]
       /\ m = Crypt => ~flags.merchant_risk_flag[i]
C11_Witness ==
  /\ pc = "scored"
  /\ \E i \in DOMAIN df_clean.rows :
        /\ df_clean.rows[i].merchant = CryptoUpper
        /\ flags.merchant_risk_flag[i]
        /\ df_processed.rows[i].fraud_score = 1

(***************************************************************************)
(* Properties of the summary (Spec).                                       *)
(***************************************************************************)
HowMany(P(_)) == Cardinality({i \in DOMAIN df_processed.rows : P(df_processed.rows[i])})
\* the file (A, t0, 1500, "Casino Royale", U1), the same record again,
\* (B, t0 + 30 s, 5, "Coffee Shop", U1)
ScenarioRows ==
  << Row("A", "t0", 150000, CasinoRoyale, "U1", "True"),
     Row("A", "t0", 150000, CasinoRoyale, "U1", "True"),
     Row("B", "t30", 500, CoffeeShop, "U1", "False") >>

\* C12: the returned summary counts the scored records, those with is_fraud
\* true, those with rule_based_fraud_flag true and those with fraud_score
\* >= 2, so high_risk_transactions <= rule_based_flags <= total_records; the
\* scenario with a duplicate of A gives 2, 2 and 1.
C12_SummaryCounts ==
  pc = "returned" =>
    /\ Len(summary) = 1
    /\ LET s == summary[1] IN
       /\ s.total_records = Len(df_processed.rows)
       /\ s.original_fraud_flags = HowMany(LAMBDA r : r.is_fraud = "True")
       /\ s.rule_based_flags = HowMany(LAMBDA r : r.rule_based_fraud_flag)
       /\ s.high_risk_transactions = HowMany(LAMBDA r : r.fraud_score >= 2)
       /\ s.high_risk_transactions <= s.rule_based_flags
       /\ s.rule_based_flags <= s.total_records
       /\ df.rows = ScenarioRows =>
            /\ s.total_records = 2
            /\ s.rule_based_flags = 2
            /\ s.high_risk_transactions = 1
C12_Witness ==
  /\ pc = "returned"
  /\ df.rows = ScenarioRows
  /\ summary = <<[total_records |-> 2, original_fraud_flags |-> 1,
                  rule_based_flags |-> 2, high_risk_transactions |-> 1]>>

====
